---- MODULE Spec2Model ----
(***************************************************************************)
(* Ledger wallet and transaction engine of solana_blockchain_integration.py *)
(* (class SolanaBlockchainIntegration): the wallet collection and its file, *)
(* the payment-record directory, the NFT-record directory, and the          *)
(* operations create_wallet, process_supply_chain_payment, transfer_sol     *)
(* and mint_product_nft.                                                    *)
(*                                                                          *)
(* Several service instances exist at once (every importing process builds  *)
(* the module-level instance, the tests build one per test); each instance  *)
(* runs one call at a time (the code is synchronous) and the instances      *)
(* interleave at the points where a call touches the file system or the     *)
(* RPC client.  A step of a call covers the code from one such point up to  *)
(* the next one.                                                            *)
(***************************************************************************)
EXTENDS Integers, Sequences, FiniteSets, TLC

(* ------------------------------ bounds -------------------------------- *)

\* Calls started in one behaviour, over all instances.
MaxCalls == 2

\* Files the payments directory holds when a history query is studied.
MaxFiles == 3

\* The service instances (processes holding a SolanaBlockchainIntegration).
Inst == {"A", "B"}

\* The instances whose callers use the operations that talk to the ledger
\* (transfer_sol, mint_product_nft, get_wallet_balance, fund_wallet); the
\* other instances create wallets and record payments meanwhile.
Submitters == {"A"}

\* Wallet names callers use; the first two are in the wallet file at start.
Names == {"w1", "w2", "w3", "w4"}

\* Product ids callers use.
ProductIds == {"p1"}

\* Metadata arguments of mint_product_nft and create_product_nft_metadata:
\* dicts from keys to values.
Metadata == {[name |-> "m1"], [name |-> "m2"]}

\* `updates` arguments of update_nft_metadata.
Updates == {[name |-> "m3"], [batch |-> "b1"]}

\* Amounts are floats in SOL; they are held here in ten-thousandths of a SOL.
SOL == 10000

\* Amounts that callers pass to transfer_sol: -1, 0, 0.0157 and 2 SOL.
Amounts == {-SOL, 0, 157, 2 * SOL}

\* Source and destination names callers pass to transfer_sol.
TransferPairs == {<<"w1", "w2">>, <<"w3", "w2">>, <<"w1", "w4">>}

(* ------------------------- program constants -------------------------- *)

\* max_wait of the confirmation loops.
max_wait == 30

\* Lamports per SOL (the 1e9 of the conversions).
LamportsPerSol == 1000000000

\* Lamports per ten-thousandth of a SOL.
LamportsPerUnit == LamportsPerSol \div SOL

\* Values get_balance can report, in lamports.
BalanceValues == {0, LamportsPerSol}

(* ------------------------------- state -------------------------------- *)

VARIABLES
    wallets,      \* wallets[i]: self.wallets of instance i, name -> wallet_info
    walletFile,   \* content of solana_wallets.json, a JSON document
    payments,     \* files of blockchain_data/payments, in file-name order
    sameSecond,   \* int(time.time()) is the second the newest payment file is named by
    nfts,         \* files of blockchain_data/nfts, product_id -> record
    call,         \* call[i]: the call instance i is running or has last finished
    ncalls,       \* calls started so far
    writes,       \* payment-record writes performed so far
    created       \* created[i]: the <<name, keypair>> create_wallet returned on instance i

vars == <<wallets, walletFile, payments, sameSecond, nfts, call, ncalls, writes, created>>

(* ------------------------------ helpers ------------------------------- *)

\* Keypair(): a fresh keypair; the slot-th one generated by call id.
Keypair(id, slot) == 4 * id + slot

\* Python values of the wallet code.  A str is the text s, or the encoding
\* enc of the key material of keypair `of`; bytes likewise.
PyStr(enc, of, s) == [t |-> "str", enc |-> enc, of |-> of, s |-> s]

PyBytes(enc, of) == [t |-> "bytes", enc |-> enc, of |-> of, s |-> ""]

\* bytes(keypair)
KeypairBytes(kp) == PyBytes("raw", kp)

\* base58.b58encode(b): bytes again.
b58encode(b) == [b EXCEPT !.enc = "base58"]

\* b.decode('utf-8')
decode(b) == [b EXCEPT !.t = "str"]

\* b.hex()
hex(b) == PyStr("hex", b.of, "")

\* bytes.fromhex(s)
fromhex(s) == PyBytes("raw", s.of)

\* str(keypair.pubkey())
PubkeyStr(kp) == PyStr("pubkey", kp, "")

\* Fault: private_key left as the bytes b58encode returns.
wallet_info_bytes(name, kp) ==
    [ name |-> PyStr("text", 0, name),
      public_key |-> PubkeyStr(kp),
      private_key |-> b58encode(KeypairBytes(kp)),
      secret_key |-> hex(KeypairBytes(kp)) ]

\* wallet_info of create_wallet for the keypair kp.
wallet_info(name, kp) ==
    [ name |-> PyStr("text", 0, name),
      public_key |-> PubkeyStr(kp),
      private_key |-> decode(b58encode(KeypairBytes(kp))),
      secret_key |-> hex(KeypairBytes(kp)) ]

\* get_wallet_keypair: Keypair.from_bytes(bytes.fromhex(secret_key)).
get_wallet_keypair(ws, name) == fromhex(ws[name].secret_key).of

\* json.dump of one value: a str becomes a JSON string; bytes are not JSON
\* serializable, json.dump raises TypeError and the value is not in the file.
JsonValue(v) ==
    IF v.t = "str" THEN [v EXCEPT !.t = "json string"]
    ELSE [t |-> "TypeError", enc |-> "-", of |-> 0, s |-> ""]

\* json.load of one value: a JSON string becomes a str.
PyValue(j) == IF j.t = "json string" THEN [j EXCEPT !.t = "str"] ELSE j

\* json.dump(self.wallets, f): a JSON object with one member per wallet
\* name, each a JSON object with one member per key of the entry.
json_dump(ws) == [n \in DOMAIN ws |-> [k \in DOMAIN ws[n] |-> JsonValue(ws[n][k])]]

\* json.load(f) of the wallet file.
json_load(doc) == [n \in DOMAIN doc |-> [k \in DOMAIN doc[n] |-> PyValue(doc[n][k])]]

\* The wallet collection the wallet file holds at the start.
InitialWallets ==
    [n \in {"w1", "w2"} |-> wallet_info(n, IF n = "w1" THEN 1 ELSE 2)]

\* load_wallets: self.wallets = json.load(f).
load_wallets(file) == json_load(file)

\* The value of an address key that a record does not have.
NoAddress == PyStr("absent", 0, "")

\* d with key k bound to v (dict item assignment d[k] = v).
DictSet(d, k, v) == [x \in (DOMAIN d) \cup {k} |-> IF x = k THEN v ELSE d[x]]

\* The empty dict.
EmptyDict == [x \in {} |-> 0]

\* An asset record with every key absent: 0, "-", FALSE and the empty dict
\* stand for a key the file does not have.
NoNft ==
    [ product_id |-> "-", mint_address |-> 0, token_account |-> 0,
      owner_wallet |-> "-", owner_address |-> NoAddress, metadata |-> EmptyDict,
      transaction_signature |-> 0, status |-> "none", on_chain |-> FALSE,
      previous_owner |-> "-" ]

\* Fault: the metadata replaced by the updates.
DictUpdate_replace(d, u) == u

\* d.update(u) of two dicts.
DictUpdate(d, u) ==
    [k \in (DOMAIN d) \cup (DOMAIN u) |-> IF k \in DOMAIN u THEN u[k] ELSE d[k]]

\* No transaction built.
NoTransaction ==
    [ instructions |-> << >>, payer |-> 0, recent_blockhash |-> 0,
      signers |-> {}, signed_with |-> 0 ]

\* A call record before any call was made.  Of a call it holds the operation
\* and its arguments, the place reached (pc), the locals of the code
\* (balance, lamports, signature, status, wait_time), and what the call did
\* on the RPC client and the payments directory: n_get_balance, n_blockhash,
\* n_send count the client calls of the call, n_status the status queries of
\* its confirmation loop, commitment is the confirmation_status of the reply
\* that made the status 'confirmed', wrote tells that the call wrote a record,
\* error is the exception the call raised.  limit and transaction_type are
\* arguments of get_transaction_history, result is the list it returned.
\* nft_info is the asset record a call has loaded from its file.  returned
\* is the kind of value the call returned: "dict" (the record), "list",
\* "str", "float" or "None".  fee_payer is the wallet whose key is the payer
\* of the message and signs the transaction.  n_history counts the
\* get_signature_statuses calls made with search_transaction_history=True.
\* transaction is the signed transaction a mint is about to hand to
\* send_transaction.
NoCall ==
    [ op |-> "none", pc |-> "idle", id |-> 0,
      wallet |-> "-", from_wallet |-> "-", to_wallet |-> "-", amount |-> 0,
      product_id |-> "-", metadata |-> EmptyDict, nft_info |-> NoNft,
      balance |-> 0, lamports |-> 0, signature |-> 0,
      status |-> "none", commitment |-> "none", wait_time |-> 0,
      n_get_balance |-> 0, n_blockhash |-> 0, n_send |-> 0, n_status |-> 0,
      error |-> "none", wrote |-> FALSE,
      limit |-> 0, transaction_type |-> "-", result |-> << >>,
      returned |-> "-", fee_payer |-> "-", n_history |-> 0,
      transaction |-> NoTransaction ]

\* Instance i is between calls.  The methods are plain synchronous
\* functions: a call, the time.sleep(1) waits of its confirmation loop
\* included, holds the thread that runs the instance until it returns or
\* raises.
Idle(i) == call[i].pc \in {"idle", "returned", "raised"}

\* Fault: the instances take turns, a call starts only when no other
\* instance is running one.
MayStart_exclusive(i) ==
    Idle(i) /\ ncalls < MaxCalls /\ \A j \in Inst \ {i} : Idle(j)

\* A caller may start one more call.
MayStart(i) == Idle(i) /\ ncalls < MaxCalls

\* The end of a call: the locals of the confirmation loop are gone.
Finish(c, pc, err) ==
    [c EXCEPT !.pc = pc, !.error = err, !.wait_time = 0, !.n_status = 0,
              !.transaction = NoTransaction]

\* The end of a call by `return`, of a value of the given kind.
Return(c, kind) == [Finish(c, "returned", "none") EXCEPT !.returned = kind]

\* The record of a call that starts now.
NewCall(op) == [NoCall EXCEPT !.op = op, !.id = ncalls + 1, !.pc = "running"]

(* ----------------------------- time, files ---------------------------- *)

\* A payment file is named payment_{int(time.time())}.json.  The seconds are
\* kept relative to the directory: payments lists the files in the order of
\* their names, and sameSecond tells whether the clock still shows the second
\* that names the newest of them.  Time passes by Tick and by each sleep(1).

\* open(payment_{int(time.time())}.json, 'w') + json.dump: the file named by
\* the current second is created, or truncated and rewritten when a file of
\* that name exists already (it is then the newest file of the directory).
WritePayment(files, same, rec) ==
    IF same /\ Len(files) > 0
    THEN [files EXCEPT ![Len(files)] = rec]
    ELSE Append(files, rec)

\* The wall clock passes into the next second.
Tick ==
    /\ sameSecond
    /\ sameSecond' = FALSE
    /\ UNCHANGED <<wallets, walletFile, payments, nfts, call, ncalls, writes, created>>

(* --------------------------- create_wallet ---------------------------- *)

\* `wallet_name in self.wallets`, the check of the operations that use a wallet.
WalletExists(ws, name) == name \in DOMAIN ws

\* Fault: create_wallet without its duplicate check.
DuplicateName_off(ws, name) == FALSE

\* `if wallet_name in self.wallets: raise`, the check of create_wallet.
DuplicateName(ws, name) == name \in DOMAIN ws

\* Fault: create_wallet returning without having written the file.
SaveWallets_skip(file, ws) == file

\* The wallet file after create_wallet's json.dump(self.wallets, f).
SaveWallets(file, ws) == json_dump(ws)

\* create_wallet(wallet_name) on instance i.
CreateWallet(i, name) ==
    /\ MayStart(i)
    /\ LET c == [NewCall("create_wallet") EXCEPT !.wallet = name] IN
       IF DuplicateName(wallets[i], name)
       THEN /\ call' = [call EXCEPT ![i] = Finish(c, "raised", "Duplicate")]
            /\ UNCHANGED <<wallets, walletFile, created>>
       ELSE LET ws == DictSet(wallets[i], name, wallet_info(name, Keypair(c.id, 1))) IN
            /\ wallets' = [wallets EXCEPT ![i] = ws]
            /\ walletFile' = SaveWallets(walletFile, ws)
            /\ created' = [created EXCEPT ![i] = @ \cup {<<name, Keypair(c.id, 1)>>}]
            /\ call' = [call EXCEPT ![i] = Return(c, "dict")]
    /\ ncalls' = ncalls + 1
    /\ UNCHANGED <<payments, sameSecond, nfts, writes>>

\* create_wallet(wallet_name) on instance i when the wallet file cannot be
\* opened for writing (a read-only or full disk): the entry is in
\* self.wallets already, open raises, the file stays as it was.  (A failure
\* inside json.dump would leave the file cut short as well.)
CreateWalletWriteFails(i, name) ==
    /\ MayStart(i)
    /\ ~DuplicateName(wallets[i], name)
    /\ LET c == [NewCall("create_wallet") EXCEPT !.wallet = name] IN
       /\ wallets' = [wallets EXCEPT ![i] =
                         DictSet(@, name, wallet_info(name, Keypair(c.id, 1)))]
       /\ call' = [call EXCEPT ![i] = Finish(c, "raised", "IOError")]
    /\ ncalls' = ncalls + 1
    /\ UNCHANGED <<walletFile, payments, sameSecond, nfts, writes, created>>

(* -------------------- process_supply_chain_payment -------------------- *)

\* payment_info of process_supply_chain_payment.
PaymentInfo(c) ==
    [ type |-> "none", from_wallet |-> c.from_wallet, to_wallet |-> c.to_wallet,
      amount |-> c.amount, status |-> "processed", signature |-> 0,
      error |-> "none", call |-> c.id ]

\* process_supply_chain_payment(from_wallet, to_wallet, amount) on instance i.
ProcessPayment(i, from, to, amount) ==
    /\ MayStart(i)
    /\ LET c == [NewCall("process_supply_chain_payment") EXCEPT
                    !.from_wallet = from, !.to_wallet = to, !.amount = amount,
                    !.wrote = TRUE] IN
       /\ payments' = WritePayment(payments, sameSecond, PaymentInfo(c))
       /\ call' = [call EXCEPT ![i] = Return(c, "dict")]
    /\ sameSecond' = TRUE
    /\ writes' = writes + 1
    /\ ncalls' = ncalls + 1
    /\ UNCHANGED <<wallets, walletFile, nfts, created>>

(* ---------------------------- transfer_sol ---------------------------- *)

\* Replies of client.get_balance: a value in lamports, or an exception.
BalanceReplies ==
    [ok : {TRUE}, value : BalanceValues] \cup {[ok |-> FALSE, value |-> 0]}

\* Fault: get_wallet_balance that answers a failed query with the balance
\* of a funded wallet.
get_wallet_balance_funded(reply) ==
    IF reply.ok THEN reply.value ELSE LamportsPerSol

\* get_wallet_balance: the reported lamports (the code divides them by 1e9),
\* and 0.0 when the query raises.
get_wallet_balance(reply) == IF reply.ok THEN reply.value ELSE 0

\* Fault: transfer_sol without its balance check.
InsufficientBalance_off(balance, amount) == FALSE

\* `balance < amount`, the balance kept in lamports.
InsufficientBalance(balance, amount) == balance < amount * LamportsPerUnit

\* The amounts a below 0.07 SOL (0 <= a < 700 here) whose double product
\* amount * 1e9 lies below the whole number of lamports a * 10^5: the double
\* nearest to the decimal amount is below it, and the product, rounded to a
\* double, stays below (0.0157 * 1e9 is 15699999.999999998).  The product
\* is exact for whole numbers of SOL.
ProductBelow == {157, 163, 314, 319, 321, 326, 331, 628, 633, 638, 642, 643,
                 647, 652, 657, 662, 667}

\* lamports = int(amount * 1e9): the double product, cut to its integer part.
Lamports(amount) ==
    IF amount \in ProductBelow
    THEN amount * LamportsPerUnit - 1
    ELSE amount * LamportsPerUnit

\* TransferParams(lamports=...) takes an unsigned 64-bit integer: building
\* the instruction raises for a negative value.
TransferParamsOk(lamports) == lamports >= 0

\* Replies of client.get_signature_statuses that are not exceptions:
\* value[0] is None (entry = FALSE) or a status with err and confirmation_status.
StatusReplies ==
    {[entry |-> FALSE, err |-> FALSE, confirmation_status |-> "none"],
     [entry |-> TRUE, err |-> TRUE, confirmation_status |-> "none"]}
    \cup [entry : {TRUE}, err : {FALSE},
          confirmation_status : {"none", "processed", "confirmed", "finalized"}]

\* Fault: a poll reply that carries an error is taken as no answer yet.
PollStatus_err_ignored(status, reply) ==
    IF reply.entry /\ ~reply.err /\ reply.confirmation_status # "none"
    THEN "confirmed"
    ELSE status

\* The status after one regular poll of the confirmation loop.
PollStatus(status, reply) ==
    IF reply.entry
    THEN IF ~reply.err
         THEN IF reply.confirmation_status # "none" THEN "confirmed" ELSE status
         ELSE "failed"
    ELSE status

\* Fault: a final check without a definitive answer gives 'failed'.
FinalStatus_timeout_failed(status, reply) ==
    IF reply.entry /\ ~reply.err /\ reply.confirmation_status # "none"
    THEN "confirmed"
    ELSE "failed"

\* The status after the final check made with search_transaction_history.
FinalStatus(status, reply) ==
    IF reply.entry
    THEN IF ~reply.err /\ reply.confirmation_status # "none" THEN "confirmed"
         ELSE IF reply.err THEN "failed"
         ELSE status
    ELSE status

\* Fault: the loop sleeps without counting the wait.
Sleep_uncounted(c) == c

\* time.sleep(1); wait_time += 1, the end of a loop iteration without break.
Sleep(c) == [c EXCEPT !.wait_time = @ + 1]

\* The call after one regular poll: status set, the reply's level noted.
AfterPoll(c, reply) ==
    [c EXCEPT !.status = PollStatus(c.status, reply),
              !.commitment = IF PollStatus(c.status, reply) = "confirmed"
                             THEN reply.confirmation_status ELSE @,
              !.n_status = @ + 1]

\* Fault: a transfer that is still pending after the final check is sent again.
AfterFinalCheck_resend(c, reply) ==
    [c EXCEPT !.status = FinalStatus(c.status, reply),
              !.commitment = IF FinalStatus(c.status, reply) = "confirmed"
                             THEN reply.confirmation_status ELSE @,
              !.n_status = @ + 1, !.n_history = @ + 1,
              !.n_send = IF FinalStatus(c.status, reply) = "pending" THEN @ + 1 ELSE @]

\* The call after the final check of a transfer that is still pending.
AfterFinalCheck(c, reply) ==
    [c EXCEPT !.status = FinalStatus(c.status, reply),
              !.commitment = IF FinalStatus(c.status, reply) = "confirmed"
                             THEN reply.confirmation_status ELSE @,
              !.n_status = @ + 1, !.n_history = @ + 1]

\* Fault: the final check is made whatever the status after the loop.
NeedsFinalCheck_always(status) == TRUE

\* `if status == "pending":` after the loop.
NeedsFinalCheck(status) == status = "pending"

\* transaction_info of the normal path.
TransactionInfo(c) ==
    [ type |-> "sol_transfer", from_wallet |-> c.from_wallet, to_wallet |-> c.to_wallet,
      amount |-> c.amount, status |-> c.status, signature |-> c.signature,
      error |-> "none", call |-> c.id ]

\* transaction_info of the except branch: no signature, the exception text.
FailedTransactionInfo(c, err) ==
    [ type |-> "sol_transfer", from_wallet |-> c.from_wallet, to_wallet |-> c.to_wallet,
      amount |-> c.amount, status |-> "failed", signature |-> 0,
      error |-> err, call |-> c.id ]

\* The except branch of transfer_sol: the failed record is written, the
\* exception raised again.
TransferExcept(i, c, err) ==
    /\ payments' = WritePayment(payments, sameSecond, FailedTransactionInfo(c, err))
    /\ sameSecond' = TRUE
    /\ writes' = writes + 1
    /\ call' = [call EXCEPT ![i] = [Finish(c, "raised", err) EXCEPT !.wrote = TRUE]]
    /\ UNCHANGED <<wallets, walletFile, nfts>>

\* The end of the normal path: load_wallets(), the record written and returned.
TransferSave(i, c) ==
    /\ wallets' = [wallets EXCEPT ![i] = load_wallets(walletFile)]
    /\ payments' = WritePayment(payments, sameSecond, TransactionInfo(c))
    /\ sameSecond' = TRUE
    /\ writes' = writes + 1
    /\ call' = [call EXCEPT ![i] = [Return(c, "dict") EXCEPT !.wrote = TRUE]]
    /\ UNCHANGED <<walletFile, nfts>>

\* Fault: a call that raises before the try block writes a failed record.
RaiseEarly_record(i, c, err) == TransferExcept(i, c, err)

\* A call that raises before the try block: nothing is written.
RaiseEarly(i, c, err) ==
    /\ call' = [call EXCEPT ![i] = Finish(c, "raised", err)]
    /\ UNCHANGED <<wallets, walletFile, payments, sameSecond, nfts, writes>>

\* transfer_sol up to the signed transaction: the wallet checks, the balance
\* check, get_latest_blockhash and the construction of the transaction.
TransferStart(i, from, to, amount, balanceReply, blockhashOk) ==
    /\ MayStart(i)
    /\ ncalls' = ncalls + 1
    /\ UNCHANGED created
    /\ LET c0 == [NewCall("transfer_sol") EXCEPT
                     !.from_wallet = from, !.to_wallet = to, !.amount = amount]
           c1 == [c0 EXCEPT !.balance = get_wallet_balance(balanceReply),
                            !.n_get_balance = 1]
           c2 == [c1 EXCEPT !.lamports = Lamports(amount), !.n_blockhash = 1,
                            !.fee_payer = from]
       IN
       IF ~WalletExists(wallets[i], from) \/ ~WalletExists(wallets[i], to)
       THEN RaiseEarly(i, c0, "NotFound")
       ELSE IF InsufficientBalance(c1.balance, amount)
       THEN RaiseEarly(i, c1, "Insufficient")
       ELSE IF ~blockhashOk
       THEN TransferExcept(i, c2, "Network")
       ELSE IF ~TransferParamsOk(c2.lamports)
       THEN TransferExcept(i, c2, "Construction")
       ELSE /\ call' = [call EXCEPT ![i] = [c2 EXCEPT !.pc = "send"]]
            /\ UNCHANGED <<wallets, walletFile, payments, sameSecond, nfts, writes>>

\* client.send_transaction: the signature of the accepted transaction, or an
\* exception (transport failure, preflight rejection).
TransferSend(i, accepted) ==
    /\ call[i].op = "transfer_sol" /\ call[i].pc = "send"
    /\ LET c == [call[i] EXCEPT !.n_send = @ + 1] IN
       IF accepted
       THEN /\ call' = [call EXCEPT ![i] =
                           [c EXCEPT !.signature = c.id, !.status = "pending",
                                     !.wait_time = 0, !.pc = "poll"]]
            /\ UNCHANGED <<wallets, walletFile, payments, sameSecond, nfts, writes>>
       ELSE TransferExcept(i, c, "Network")
    /\ UNCHANGED <<ncalls, created>>

\* One iteration of the confirmation loop: the poll, then the break, or
\* sleep(1) and wait_time += 1; and when the loop is left, by the break or
\* by its condition, the test of the status that leads to the final check
\* or to the rest of the normal path.
TransferPoll(i, ok, reply) ==
    /\ call[i].op = "transfer_sol" /\ call[i].pc = "poll"
    /\ call[i].wait_time < max_wait
    /\ IF ~ok
       THEN TransferExcept(i, [call[i] EXCEPT !.n_status = @ + 1], "Network")
       ELSE LET c == AfterPoll(call[i], reply)
                break == c.status # "pending"
                slept == Sleep(c)
                left == IF break THEN c ELSE slept
            IN
            IF ~break /\ slept.wait_time < max_wait
            THEN /\ call' = [call EXCEPT ![i] = slept]
                 /\ sameSecond' = FALSE
                 /\ UNCHANGED <<wallets, walletFile, payments, nfts, writes>>
            ELSE IF NeedsFinalCheck(left.status)
            THEN /\ call' = [call EXCEPT ![i] = [left EXCEPT !.pc = "final"]]
                 /\ sameSecond' = IF break THEN sameSecond ELSE FALSE
                 /\ UNCHANGED <<wallets, walletFile, payments, nfts, writes>>
            ELSE TransferSave(i, left)
    /\ UNCHANGED <<ncalls, created>>

\* After the loop ran out with the status pending: the final check with
\* search_transaction_history, then the rest of the normal path.
TransferFinal(i, ok, reply) ==
    /\ call[i].op = "transfer_sol" /\ call[i].pc = "final"
    /\ IF ~ok
       THEN TransferExcept(i, [call[i] EXCEPT !.n_status = @ + 1,
                                              !.n_history = @ + 1], "Network")
       ELSE TransferSave(i, AfterFinalCheck(call[i], reply))
    /\ UNCHANGED <<ncalls, created>>

(* ------------------ get_wallet_balance, fund_wallet ------------------- *)

\* get_wallet_balance(wallet_name) called on instance i: the name check, the
\* get_balance query, the balance returned (0.0 when the query raised).
GetBalance(i, name, reply) ==
    /\ MayStart(i)
    /\ ncalls' = ncalls + 1
    /\ UNCHANGED created
    /\ LET c == [NewCall("get_wallet_balance") EXCEPT !.wallet = name] IN
       IF ~WalletExists(wallets[i], name)
       THEN RaiseEarly(i, c, "NotFound")
       ELSE /\ call' = [call EXCEPT ![i] =
                           Return([c EXCEPT !.balance = get_wallet_balance(reply),
                                            !.n_get_balance = 1], "float")]
            /\ UNCHANGED <<wallets, walletFile, payments, sameSecond, nfts, writes>>

\* Outcomes of client.request_airdrop: a reply with a signature, a reply
\* without one, an exception.
AirdropReplies == {"signature", "empty", "exception"}

\* fund_wallet(wallet_name, amount) on instance i: the name check, the
\* airdrop request, then sleep(1) and str(signature.value), or None.
FundWallet(i, name, amount, reply) ==
    /\ MayStart(i)
    /\ ncalls' = ncalls + 1
    /\ UNCHANGED created
    /\ LET c == [NewCall("fund_wallet") EXCEPT !.wallet = name, !.amount = amount] IN
       IF ~WalletExists(wallets[i], name)
       THEN RaiseEarly(i, c, "NotFound")
       ELSE /\ call' = [call EXCEPT ![i] =
                           IF reply = "signature"
                           THEN Return([c EXCEPT !.signature = c.id], "str")
                           ELSE Return(c, "None")]
            /\ sameSecond' = IF reply = "signature" THEN FALSE ELSE sameSecond
            /\ UNCHANGED <<wallets, walletFile, payments, nfts, writes>>

(* -------------------------- mint_product_nft -------------------------- *)

\* Public keys are the numbers of their keypairs; the keys of the programs
\* and of the rent sysvar are numbers no keypair has.
TOKEN_PROGRAM_ID == 100
SYSTEM_PROGRAM_ID == 101
SYSVAR_RENT == 102

\* pubkey.__bytes__(): the 32 bytes of a key, here 32 values that depend on
\* the key.
PubkeyBytes(pubkey) == [k \in 1 .. 32 |-> (31 * pubkey + k) % 256]

\* n as an unsigned little-endian integer of `width` bytes.
RECURSIVE LittleEndian(_, _)
LittleEndian(n, width) ==
    IF width = 0 THEN << >> ELSE <<n % 256>> \o LittleEndian(n \div 256, width - 1)

\* Fault: the amount packed big-endian ('>Q').
pack_Q_big_endian(n) == [k \in 1 .. 8 |-> LittleEndian(n, 8)[9 - k]]

\* struct.pack('<B', n)
pack_B(n) == LittleEndian(n, 1)

\* struct.pack('<Q', n)
pack_Q(n) == LittleEndian(n, 8)

\* client.get_minimum_balance_for_rent_exemption(space).value
RentExemption(space) == 6960 * (128 + space)

AccountMeta(pubkey, is_signer, is_writable) ==
    [pubkey |-> pubkey, is_signer |-> is_signer, is_writable |-> is_writable]

\* create_account(CreateAccountParams(...)) of the system program: the
\* payload is the 4-byte discriminant 0, lamports and space as 8-byte
\* integers and the 32 bytes of the owner; both accounts sign.
create_account(from_pubkey, to_pubkey, lamports, space, owner) ==
    [ program_id |-> SYSTEM_PROGRAM_ID,
      data |-> LittleEndian(0, 4) \o LittleEndian(lamports, 8)
               \o LittleEndian(space, 8) \o PubkeyBytes(owner),
      accounts |-> <<AccountMeta(from_pubkey, TRUE, TRUE),
                     AccountMeta(to_pubkey, TRUE, TRUE)>> ]

\* init_mint_data
init_mint_data(owner_pubkey) ==
    pack_B(0) \o pack_B(0) \o PubkeyBytes(owner_pubkey) \o pack_B(0)

\* init_token_account_data
init_token_account_data(owner_pubkey) == pack_B(1) \o PubkeyBytes(owner_pubkey)

\* mint_to_data
mint_to_data == pack_B(7) \o pack_Q(1)

\* The five instructions of the mint, as they are built.
create_mint_account_ix(owner_pubkey, mint_pubkey) ==
    create_account(owner_pubkey, mint_pubkey, RentExemption(82), 82, TOKEN_PROGRAM_ID)

init_mint_ix(owner_pubkey, mint_pubkey) ==
    [ program_id |-> TOKEN_PROGRAM_ID,
      data |-> init_mint_data(owner_pubkey),
      accounts |-> <<AccountMeta(mint_pubkey, TRUE, TRUE),
                     AccountMeta(SYSVAR_RENT, FALSE, FALSE),
                     AccountMeta(owner_pubkey, TRUE, FALSE)>> ]

create_token_account_ix(owner_pubkey, token_account_pubkey) ==
    create_account(owner_pubkey, token_account_pubkey, RentExemption(165), 165,
                   TOKEN_PROGRAM_ID)

init_token_account_ix(owner_pubkey, mint_pubkey, token_account_pubkey) ==
    [ program_id |-> TOKEN_PROGRAM_ID,
      data |-> init_token_account_data(owner_pubkey),
      accounts |-> <<AccountMeta(token_account_pubkey, TRUE, TRUE),
                     AccountMeta(mint_pubkey, FALSE, FALSE),
                     AccountMeta(owner_pubkey, FALSE, FALSE),
                     AccountMeta(SYSVAR_RENT, FALSE, FALSE)>> ]

mint_to_ix(owner_pubkey, mint_pubkey, token_account_pubkey) ==
    [ program_id |-> TOKEN_PROGRAM_ID,
      data |-> mint_to_data,
      accounts |-> <<AccountMeta(mint_pubkey, TRUE, TRUE),
                     AccountMeta(token_account_pubkey, FALSE, TRUE),
                     AccountMeta(owner_pubkey, TRUE, FALSE)>> ]

\* Fault: the holding account initialized before it is created.
instructions_init_first(owner_pubkey, mint_pubkey, token_account_pubkey) ==
    << create_mint_account_ix(owner_pubkey, mint_pubkey),
       init_mint_ix(owner_pubkey, mint_pubkey),
       init_token_account_ix(owner_pubkey, mint_pubkey, token_account_pubkey),
       create_token_account_ix(owner_pubkey, token_account_pubkey),
       mint_to_ix(owner_pubkey, mint_pubkey, token_account_pubkey) >>

\* instructions = [...]
instructions(owner_pubkey, mint_pubkey, token_account_pubkey) ==
    << create_mint_account_ix(owner_pubkey, mint_pubkey),
       init_mint_ix(owner_pubkey, mint_pubkey),
       create_token_account_ix(owner_pubkey, token_account_pubkey),
       init_token_account_ix(owner_pubkey, mint_pubkey, token_account_pubkey),
       mint_to_ix(owner_pubkey, mint_pubkey, token_account_pubkey) >>

\* Message.new_with_blockhash, Transaction.new_unsigned and
\* transaction.sign([owner_keypair, mint_keypair, token_account_keypair],
\* recent_blockhash) of call c on instance i.
MintTransaction(i, c, recent_blockhash) ==
    LET owner_keypair == get_wallet_keypair(wallets[i], c.wallet)
        mint_keypair == Keypair(c.id, 2)
        token_account_keypair == Keypair(c.id, 3)
    IN  [ instructions |-> instructions(owner_keypair, mint_keypair,
                                        token_account_keypair),
          payer |-> owner_keypair,
          recent_blockhash |-> recent_blockhash,
          signers |-> {owner_keypair, mint_keypair, token_account_keypair},
          signed_with |-> recent_blockhash ]

\* nft_info of mint_product_nft, written by instance i for its call c.
NftInfo(i, c) ==
    [ product_id |-> c.product_id,
      mint_address |-> Keypair(c.id, 2),
      token_account |-> Keypair(c.id, 3),
      owner_wallet |-> c.wallet,
      owner_address |-> PubkeyStr(get_wallet_keypair(wallets[i], c.wallet)),
      metadata |-> c.metadata,
      transaction_signature |-> c.signature,
      status |-> c.status,
      on_chain |-> TRUE,
      previous_owner |-> "-" ]

\* The except branch of mint_product_nft: the exception is logged and raised
\* again, nothing is written.
MintExcept(i, c, err) ==
    /\ call' = [call EXCEPT ![i] = Finish(c, "raised", err)]
    /\ UNCHANGED <<wallets, walletFile, payments, nfts, writes>>

\* mint_product_nft up to the signed transaction: the owner check, the
\* keypairs, get_latest_blockhash, the two rent queries, the five instructions.
MintStart(i, product_id, owner, metadata, rpcOk) ==
    /\ MayStart(i)
    /\ ncalls' = ncalls + 1
    /\ UNCHANGED created
    /\ LET c0 == [NewCall("mint_product_nft") EXCEPT
                     !.product_id = product_id, !.wallet = owner, !.metadata = metadata]
           c1 == [c0 EXCEPT !.n_blockhash = 1]
       IN
       IF ~WalletExists(wallets[i], owner)
       THEN RaiseEarly(i, c0, "NotFound")
       ELSE IF ~rpcOk
       THEN MintExcept(i, c1, "Network") /\ UNCHANGED sameSecond
       ELSE /\ call' = [call EXCEPT ![i] =
                           [c1 EXCEPT !.pc = "send", !.fee_payer = owner,
                                      !.transaction = MintTransaction(i, c1, c1.id)]]
            /\ UNCHANGED <<wallets, walletFile, payments, sameSecond, nfts, writes>>

\* client.send_transaction of the mint transaction.
MintSend(i, accepted) ==
    /\ call[i].op = "mint_product_nft" /\ call[i].pc = "send"
    /\ LET c == [call[i] EXCEPT !.n_send = @ + 1] IN
       IF accepted
       THEN /\ call' = [call EXCEPT ![i] =
                           [c EXCEPT !.signature = c.id, !.status = "pending",
                                     !.wait_time = 0, !.pc = "poll",
                                     !.transaction = NoTransaction]]
            /\ UNCHANGED <<wallets, walletFile, payments, nfts, writes>>
       ELSE MintExcept(i, c, "Network")
    /\ UNCHANGED <<ncalls, sameSecond, created>>

\* One iteration of the mint's confirmation loop: the poll, then the break
\* (the record written when confirmed, the exception when failed), or
\* sleep(1) and wait_time += 1, and the exception when the loop has run out.
MintPoll(i, ok, reply) ==
    /\ call[i].op = "mint_product_nft" /\ call[i].pc = "poll"
    /\ call[i].wait_time < max_wait
    /\ IF ~ok
       THEN MintExcept(i, [call[i] EXCEPT !.n_status = @ + 1], "Network")
            /\ UNCHANGED sameSecond
       ELSE LET c == AfterPoll(call[i], reply) IN
            IF c.status = "confirmed"
            THEN /\ nfts' = DictSet(nfts, c.product_id, NftInfo(i, c))
                 /\ call' = [call EXCEPT ![i] =
                                [Return(c, "dict") EXCEPT !.wrote = TRUE]]
                 /\ UNCHANGED <<wallets, walletFile, payments, sameSecond, writes>>
            ELSE IF c.status = "failed"
            THEN MintExcept(i, c, "NotConfirmed") /\ UNCHANGED sameSecond
            ELSE /\ sameSecond' = FALSE
                 /\ IF Sleep(c).wait_time < max_wait
                    THEN /\ call' = [call EXCEPT ![i] = Sleep(c)]
                         /\ UNCHANGED <<wallets, walletFile, payments, nfts, writes>>
                    ELSE MintExcept(i, c, "NotConfirmed")
    /\ UNCHANGED <<ncalls, created>>

(* ------------------------- asset record updates ----------------------- *)

\* Fault: create_product_nft_metadata marking its record on_chain.
MetadataInfo_on_chain(c) ==
    [NoNft EXCEPT !.product_id = c.product_id, !.owner_wallet = c.wallet,
                  !.metadata = c.metadata, !.on_chain = TRUE]

\* nft_info of create_product_nft_metadata: product_id, owner_wallet and
\* metadata, no mint_address, token_account, owner_address or on_chain.
MetadataInfo(c) ==
    [NoNft EXCEPT !.product_id = c.product_id, !.owner_wallet = c.wallet,
                  !.metadata = c.metadata]

\* Fault: transfer_nft_on_chain_simple without its on-chain check.
OnChain_off(rec) == TRUE

\* nft_info.get('on_chain', False)
OnChain(rec) == rec.on_chain

\* os.path.exists(nft_file)
NftExists(files, product_id) == product_id \in DOMAIN files

\* create_product_nft_metadata(product_id, warehouse_wallet, metadata) on
\* instance i: the file is opened with 'w' and written.
CreateProductNftMetadata(i, product_id, warehouse_wallet, metadata) ==
    /\ MayStart(i)
    /\ LET c == [NewCall("create_product_nft_metadata") EXCEPT
                    !.product_id = product_id, !.wallet = warehouse_wallet,
                    !.metadata = metadata, !.wrote = TRUE] IN
       /\ nfts' = DictSet(nfts, product_id, MetadataInfo(c))
       /\ call' = [call EXCEPT ![i] = Return(c, "dict")]
    /\ ncalls' = ncalls + 1
    /\ UNCHANGED <<wallets, walletFile, payments, sameSecond, writes, created>>

\* A call that has loaded the asset record and goes on to change and save it.
Loaded(i, c, product_id) ==
    /\ call' = [call EXCEPT ![i] = [c EXCEPT !.nft_info = nfts[product_id], !.pc = "save"]]
    /\ UNCHANGED <<wallets, walletFile, payments, sameSecond, nfts, writes>>

\* The asset record file rewritten with rec, which the call returns.
SaveNft(i, rec) ==
    /\ nfts' = DictSet(nfts, rec.product_id, rec)
    /\ call' = [call EXCEPT ![i] =
                   [Return(call[i], "dict") EXCEPT !.nft_info = rec,
                                                               !.wrote = TRUE]]
    /\ UNCHANGED <<wallets, walletFile, payments, sameSecond, writes, ncalls, created>>

\* update_nft_metadata(product_id, updates) up to the loaded record.
UpdateNftMetadata(i, product_id, updates) ==
    /\ MayStart(i)
    /\ ncalls' = ncalls + 1
    /\ UNCHANGED created
    /\ LET c == [NewCall("update_nft_metadata") EXCEPT
                    !.product_id = product_id, !.metadata = updates] IN
       IF ~NftExists(nfts, product_id)
       THEN RaiseEarly(i, c, "NotFound")
       ELSE Loaded(i, c, product_id)

\* update_nft_metadata: the metadata of the loaded record updated, the file
\* rewritten.
UpdateNftMetadataSave(i) ==
    /\ call[i].op = "update_nft_metadata" /\ call[i].pc = "save"
    /\ SaveNft(i, [call[i].nft_info EXCEPT
                      !.metadata = DictUpdate(@, call[i].metadata)])

\* transfer_nft_ownership(product_id, new_owner_wallet) up to the loaded record.
TransferNftOwnership(i, product_id, new_owner_wallet) ==
    /\ MayStart(i)
    /\ ncalls' = ncalls + 1
    /\ UNCHANGED created
    /\ LET c == [NewCall("transfer_nft_ownership") EXCEPT
                    !.product_id = product_id, !.wallet = new_owner_wallet] IN
       IF ~WalletExists(wallets[i], new_owner_wallet)
       THEN RaiseEarly(i, c, "NotFound")
       ELSE IF ~NftExists(nfts, product_id)
       THEN RaiseEarly(i, c, "NotFound")
       ELSE Loaded(i, c, product_id)

\* transfer_nft_ownership: owner_wallet and previous_owner set, the file
\* rewritten.
TransferNftOwnershipSave(i) ==
    /\ call[i].op = "transfer_nft_ownership" /\ call[i].pc = "save"
    /\ SaveNft(i, [call[i].nft_info EXCEPT
                      !.owner_wallet = call[i].wallet,
                      !.previous_owner = call[i].nft_info.owner_wallet])

\* transfer_nft_on_chain(product_id, new_owner_wallet_name), that is
\* transfer_nft_on_chain_simple, up to the loaded record.
TransferNftOnChain(i, product_id, new_owner_wallet_name) ==
    /\ MayStart(i)
    /\ ncalls' = ncalls + 1
    /\ UNCHANGED created
    /\ LET c == [NewCall("transfer_nft_on_chain") EXCEPT
                    !.product_id = product_id, !.wallet = new_owner_wallet_name] IN
       IF ~WalletExists(wallets[i], new_owner_wallet_name)
       THEN RaiseEarly(i, c, "NotFound")
       ELSE IF ~NftExists(nfts, product_id)
       THEN RaiseEarly(i, c, "NotFound")
       ELSE IF ~OnChain(nfts[product_id])
       THEN RaiseEarly(i, [c EXCEPT !.nft_info = nfts[product_id]], "NotOnChain")
       ELSE Loaded(i, c, product_id)

\* Fault: the transfer leaves the address of the old owner in the record.
OwnershipUpdated_keeps_address(rec, new_owner_wallet_name, new_owner_address) ==
    [rec EXCEPT !.owner_wallet = new_owner_wallet_name,
                !.previous_owner = rec.owner_wallet]

\* The record after the assignments of transfer_nft_on_chain_simple:
\* owner_wallet, owner_address and previous_owner.
OwnershipUpdated(rec, new_owner_wallet_name, new_owner_address) ==
    [rec EXCEPT !.owner_wallet = new_owner_wallet_name,
                !.owner_address = new_owner_address,
                !.previous_owner = rec.owner_wallet]

\* transfer_nft_on_chain_simple: owner_wallet, owner_address and
\* previous_owner set, the file rewritten.
TransferNftOnChainSave(i) ==
    /\ call[i].op = "transfer_nft_on_chain" /\ call[i].pc = "save"
    /\ SaveNft(i, OwnershipUpdated(call[i].nft_info, call[i].wallet,
                                   wallets[i][call[i].wallet].public_key))

(* ----------------------- get_transaction_history ---------------------- *)

\* An absent filter argument (None).
NoFilter == "None"

\* The content of a file of the payments directory that cannot be read as a
\* record: json.load raises on it.
Corrupt ==
    [ type |-> "corrupt", from_wallet |-> "-", to_wallet |-> "-", amount |-> 0,
      status |-> "-", signature |-> 0, error |-> "-", call |-> 0 ]

\* open + json.load succeed on the file.
Readable(f) == f # Corrupt

\* Fault: the file names sorted without reverse=True.
Reverse_off(s) == s

\* s in reverse order.
Reverse(s) == [k \in 1 .. Len(s) |-> s[Len(s) + 1 - k]]

\* sorted([...], reverse=True)[:limit]: the files by descending name, cut to
\* the first `limit` of them.
PaymentFiles(files, limit) ==
    SubSeq(Reverse(files), 1, IF limit < Len(files) THEN limit ELSE Len(files))

\* Fault: get_transaction_history without its filters.
PassesFilters_off(rec, wallet_name, transaction_type) == TRUE

\* The filters of the loop body: the record is not skipped by `continue`.
PassesFilters(rec, wallet_name, transaction_type) ==
    /\ (wallet_name # NoFilter) =>
           (rec.from_wallet = wallet_name \/ rec.to_wallet = wallet_name)
    /\ (transaction_type # NoFilter) => (rec.type = transaction_type)

\* get_transaction_history: of the files listed, those that can be read and
\* pass the filters, in the order of the list.
get_transaction_history(files, wallet_name, limit, transaction_type) ==
    SelectSeq(PaymentFiles(files, limit),
              LAMBDA f : Readable(f) /\ PassesFilters(f, wallet_name, transaction_type))

\* get_transaction_history(wallet_name, limit, transaction_type) on instance i.
GetHistory(i, wallet_name, limit, transaction_type) ==
    /\ MayStart(i)
    /\ LET c == [NewCall("get_transaction_history") EXCEPT
                    !.wallet = wallet_name, !.limit = limit,
                    !.transaction_type = transaction_type,
                    !.result = get_transaction_history(payments, wallet_name, limit,
                                                       transaction_type)] IN
       call' = [call EXCEPT ![i] = Return(c, "list")]
    /\ ncalls' = ncalls + 1
    /\ UNCHANGED <<wallets, walletFile, payments, sameSecond, nfts, writes, created>>

(* ------------------------------- system ------------------------------- *)

Init ==
    /\ walletFile = json_dump(InitialWallets)
    /\ wallets = [i \in Inst |-> load_wallets(walletFile)]
    /\ payments = <<>>
    /\ sameSecond = FALSE
    /\ nfts = EmptyDict
    /\ call = [i \in Inst |-> NoCall]
    /\ ncalls = 0
    /\ writes = 0
    /\ created = [i \in Inst |-> {}]

\* The steps of the calls made on the instances of S, and the clock.
NextOf(S) ==
    \/ Tick
    \/ \E i \in S, n \in Names : CreateWallet(i, n)
    \/ \E i \in S : ProcessPayment(i, "w1", "w2", SOL)
    \/ \E i \in S \cap Submitters, n \in {"w1", "w3"}, b \in BalanceReplies :
          GetBalance(i, n, b)
    \/ \E i \in S \cap Submitters, n \in {"w1", "w3"}, r \in AirdropReplies :
          FundWallet(i, n, SOL, r)
    \/ \E i \in S \cap Submitters, p \in TransferPairs, a \in Amounts,
          b \in BalanceReplies, h \in BOOLEAN : TransferStart(i, p[1], p[2], a, b, h)
    \/ \E i \in S \cap Submitters, ok \in BOOLEAN : TransferSend(i, ok)
    \/ \E i \in S \cap Submitters, ok \in BOOLEAN, r \in StatusReplies :
          TransferPoll(i, ok, r)
    \/ \E i \in S \cap Submitters, ok \in BOOLEAN, r \in StatusReplies :
          TransferFinal(i, ok, r)
    \/ \E i \in S \cap Submitters, p \in ProductIds, o \in {"w1", "w3"}, m \in Metadata,
          ok \in BOOLEAN : MintStart(i, p, o, m, ok)
    \/ \E i \in S \cap Submitters, ok \in BOOLEAN : MintSend(i, ok)
    \/ \E i \in S \cap Submitters, ok \in BOOLEAN, r \in StatusReplies :
          MintPoll(i, ok, r)

\* All instances run calls.
Next == NextOf(Inst)

\* One service instance owns the files: only instance "A" runs calls.
NextOne == NextOf({"A"})

Spec == Init /\ [][Next]_vars

SpecOne == Init /\ [][NextOne]_vars

\* The k-th oldest file left in the payments directory by earlier runs of
\* the service: the record of a process_supply_chain_payment call (kind
\* "payment") or of a transfer_sol call that was confirmed, from wallet
\* `from` to "w2"; or a file that cannot be read.
EarlierFile(k, kind, from) ==
    LET c == [NoCall EXCEPT !.id = k - MaxFiles - 1, !.from_wallet = from,
                            !.to_wallet = "w2", !.amount = SOL,
                            !.signature = k - MaxFiles - 1, !.status = "confirmed"]
    IN  IF kind = "payment" THEN PaymentInfo(c)
        ELSE IF kind = "sol_transfer" THEN TransactionInfo(c)
        ELSE Corrupt

\* The directories of at most MaxFiles files.
Directories ==
    UNION { [1 .. n -> {"payment", "sol_transfer", "corrupt"} \X {"w1", "w3"}] :
            n \in 0 .. MaxFiles }

\* The service starts on a payments directory that earlier runs filled.
InitHistory ==
    /\ walletFile = json_dump(InitialWallets)
    /\ wallets = [i \in Inst |-> load_wallets(walletFile)]
    /\ \E d \in Directories :
          payments = [k \in DOMAIN d |-> EarlierFile(k, d[k][1], d[k][2])]
    /\ sameSecond = FALSE
    /\ nfts = EmptyDict
    /\ call = [i \in Inst |-> NoCall]
    /\ ncalls = 0
    /\ writes = Len(payments)
    /\ created = [i \in Inst |-> {}]

\* History queries of one instance.
NextHistory ==
    \E w \in {NoFilter, "w1", "w3"}, n \in 0 .. MaxFiles,
       t \in {NoFilter, "sol_transfer"} : GetHistory("A", w, n, t)

SpecHistory == InitHistory /\ [][NextHistory]_vars

\* The asset record an earlier run of the service left for "p1": none, the
\* record of a confirmed mint for owner "w1", or the record of
\* create_product_nft_metadata.
EarlierNfts ==
    LET c == [NoCall EXCEPT !.id = -1, !.product_id = "p1", !.wallet = "w1",
                            !.metadata = [name |-> "m1"], !.signature = -1,
                            !.status = "confirmed"]
    IN  { EmptyDict,
          [p \in {"p1"} |-> NftInfo("A", c)],
          [p \in {"p1"} |-> MetadataInfo(c)] }

\* The service starts on an nfts directory that earlier runs filled.
InitNft ==
    /\ walletFile = json_dump(InitialWallets)
    /\ wallets = [i \in Inst |-> load_wallets(walletFile)]
    /\ payments = << >>
    /\ sameSecond = FALSE
    /\ nfts \in EarlierNfts
    /\ call = [i \in Inst |-> NoCall]
    /\ ncalls = 0
    /\ writes = 0
    /\ created = [i \in Inst |-> {}]

\* The operations on asset records: the mints of the submitting instances,
\* the record updates of all instances.
NextNft ==
    \/ \E i \in Submitters, p \in ProductIds, o \in {"w1", "w3"}, m \in Metadata,
          ok \in BOOLEAN : MintStart(i, p, o, m, ok)
    \/ \E i \in Submitters, ok \in BOOLEAN : MintSend(i, ok)
    \/ \E i \in Submitters, ok \in BOOLEAN, r \in StatusReplies : MintPoll(i, ok, r)
    \/ \E i \in Inst, p \in ProductIds, m \in Metadata :
          CreateProductNftMetadata(i, p, "w2", m)
    \/ \E i \in Inst, p \in ProductIds, u \in Updates : UpdateNftMetadata(i, p, u)
    \/ \E i \in Inst : UpdateNftMetadataSave(i)
    \/ \E i \in Inst, p \in ProductIds, o \in {"w2", "w3"} : TransferNftOwnership(i, p, o)
    \/ \E i \in Inst : TransferNftOwnershipSave(i)
    \/ \E i \in Inst, p \in ProductIds, o \in {"w2", "w3"} : TransferNftOnChain(i, p, o)
    \/ \E i \in Inst : TransferNftOnChainSave(i)

SpecNft == InitNft /\ [][NextNft]_vars

\* One service instance on a disk where opening the wallet file for writing
\* can fail.
NextDisk ==
    \/ NextOne
    \/ \E n \in Names : CreateWalletWriteFails("A", n)

SpecDisk == Init /\ [][NextDisk]_vars

\* Two processes, each with its own instance of the service, transfer from
\* the wallet "w1": every instance runs transfer_sol("w1", "w2", 1.0).
NextRace ==
    \/ \E i \in Inst, b \in BalanceReplies, h \in BOOLEAN :
          TransferStart(i, "w1", "w2", SOL, b, h)
    \/ \E i \in Inst, ok \in BOOLEAN : TransferSend(i, ok)
    \/ \E i \in Inst, ok \in BOOLEAN, r \in StatusReplies : TransferPoll(i, ok, r)
    \/ \E i \in Inst, ok \in BOOLEAN, r \in StatusReplies : TransferFinal(i, ok, r)

SpecRace == Init /\ [][NextRace]_vars

\* The steps of an accepted transfer or mint on instance "A": the send, the
\* polls of the confirmation loop, the final check.
LoopStep ==
    \/ \E ok \in BOOLEAN : TransferSend("A", ok)
    \/ \E ok \in BOOLEAN, r \in StatusReplies : TransferPoll("A", ok, r)
    \/ \E ok \in BOOLEAN, r \in StatusReplies : TransferFinal("A", ok, r)
    \/ \E ok \in BOOLEAN : MintSend("A", ok)
    \/ \E ok \in BOOLEAN, r \in StatusReplies : MintPoll("A", ok, r)

\* One instance runs transfers and mints.
NextLoop ==
    \/ \E b \in BalanceReplies, h \in BOOLEAN : TransferStart("A", "w1", "w2", 157, b, h)
    \/ \E ok \in BOOLEAN : MintStart("A", "p1", "w1", [name |-> "m1"], ok)
    \/ LoopStep

\* The thread that runs a call goes on with it: every call on the ledger
\* client comes back, with a reply or an exception, and every sleep ends.
SpecLoop == Init /\ [][NextLoop]_vars /\ WF_vars(LoopStep)

(* ------------------------------- claims ------------------------------- *)

\* The step starts a call of op on instance i.
Starts(i, op) == call'[i].id # call[i].id /\ call'[i].op = op

\* C1: create_wallet(n) with n already in the collection raises the
\* duplicate-name error and leaves the collection and the wallet file as they
\* were; with n not yet in it the call succeeds; so of two calls for one name
\* the first succeeds and the second is rejected, and the collection holds
\* for n the keypair the first call returned, exactly one per name.
C1_DuplicateNameRejected ==
    /\ [][\A i \in Inst : Starts(i, "create_wallet") =>
            IF call'[i].wallet \in DOMAIN wallets[i]
            THEN /\ call'[i].pc = "raised" /\ call'[i].error = "Duplicate"
                 /\ wallets' = wallets /\ walletFile' = walletFile
            ELSE /\ call'[i].pc = "returned"
                 /\ <<call'[i].wallet, get_wallet_keypair(wallets'[i], call'[i].wallet)>>
                        \in created'[i]]_vars
    /\ [](\A i \in Inst : \A p \in created[i] :
            /\ p[1] \in DOMAIN wallets[i] /\ wallets[i][p[1]] = wallet_info(p[1], p[2])
            /\ \A q \in created[i] : q[1] = p[1] => q = p)

\* C1 witness: the second create_wallet("w3") was rejected and "w3" still has
\* the keypair of the first call in the collection and in the file.
C1_Witness ==
    \E i \in Inst :
        /\ call[i].op = "create_wallet" /\ call[i].wallet = "w3"
        /\ call[i].error = "Duplicate"
        /\ created[i] = {<<"w3", Keypair(1, 1)>>}
        /\ wallets[i]["w3"] = wallet_info("w3", Keypair(1, 1))
        /\ load_wallets(walletFile) = wallets[i]

\* C2: two create_wallet calls for different names, made on two instances
\* that loaded the same wallet file, both returned success: the file holds
\* both new entries and every entry it held before.
C2_NoClobber ==
    \A i, j \in Inst :
        ( /\ i # j
          /\ call[i].op = "create_wallet" /\ call[i].pc = "returned"
          /\ call[j].op = "create_wallet" /\ call[j].pc = "returned"
          /\ call[i].wallet # call[j].wallet )
        => /\ {call[i].wallet, call[j].wallet} \subseteq DOMAIN load_wallets(walletFile)
           /\ DOMAIN InitialWallets \subseteq DOMAIN load_wallets(walletFile)

\* C3: once create_wallet(n) has returned success, the wallet file holds n
\* with the keypair returned, in every later state; and when the call has
\* just returned the file is the full collection of the instance.
C3_PersistedBeforeReturn ==
    \A i \in Inst :
        /\ \A p \in created[i] :
               /\ p[1] \in DOMAIN load_wallets(walletFile)
               /\ load_wallets(walletFile)[p[1]] = wallet_info(p[1], p[2])
        /\ (call[i].op = "create_wallet" /\ call[i].pc = "returned")
               => load_wallets(walletFile) = wallets[i]

\* C3 witness: create_wallet("w3") returned success, and a later call of the
\* instance has finished since.
C3_Witness ==
    \E i \in Inst :
        /\ <<"w3", Keypair(1, 1)>> \in created[i]
        /\ call[i].id = 2 /\ call[i].pc \in {"returned", "raised"}
        /\ load_wallets(walletFile)["w3"] = wallet_info("w3", Keypair(1, 1))

\* C4: a transfer or a mint has status 'confirmed' only if the poll that set
\* it reported no error and the commitment level finalized.
C4_ConfirmedOnlyFinalized ==
    \A i \in Inst :
        (call[i].op \in {"transfer_sol", "mint_product_nft"} /\ call[i].status = "confirmed")
            => call[i].commitment = "finalized"

\* C5: a transfer whose transaction send_transaction accepted and whose
\* status query then raised a transport failure leaves no persisted record
\* with status 'failed'.
C5_FailedOnlyOnReportedError ==
    \A i \in Inst :
        ( /\ call[i].op = "transfer_sol" /\ call[i].pc = "raised"
          /\ call[i].error = "Network" /\ call[i].signature # 0 )
        => ~ \E k \in DOMAIN payments :
                 payments[k].call = call[i].id /\ payments[k].status = "failed"

\* A transfer whose source and destination are known and whose amount is
\* above the balance get_wallet_balance returned.
AboveBalance(c) ==
    /\ c.op = "transfer_sol" /\ c.n_get_balance = 1
    /\ c.balance < c.amount * LamportsPerUnit

C7_SendAtMostOnce ==
    \A i \in Inst :
        call[i].op \in {"transfer_sol", "mint_product_nft"} => call[i].n_send <= 1

\* C7 witness: a transfer ran through the whole loop and the final check
\* without a definitive status, and returned having sent once.
C7_Witness ==
    \E i \in Inst :
        /\ call[i].op = "transfer_sol" /\ call[i].pc = "returned"
        /\ call[i].status = "pending" /\ call[i].n_send = 1

\* C8: no payment-record write overwrites the file of another write: the
\* directory holds as many records as writes were performed.
C8_AppendOnly == Len(payments) = writes

\* C9: mint_product_nft for a product_id that has an asset record already
\* fails with the duplicate-asset error at once (nothing is submitted), and
\* a mint never changes an asset record that exists.
C9_DuplicateAssetRejected ==
    [][\A i \in Inst :
          /\ (Starts(i, "mint_product_nft") /\ call'[i].product_id \in DOMAIN nfts)
                => (call'[i].pc = "raised" /\ call'[i].error = "Duplicate")
          /\ (call'[i].op = "mint_product_nft" /\ call'[i] # call[i])
                => \A p \in DOMAIN nfts : p \in DOMAIN nfts' /\ nfts'[p] = nfts[p]]_vars

\* The step ends a transfer_sol call of instance i that had passed the
\* pre-flight checks, as a failure: by an exception of the blockhash query,
\* the construction, the submission or a status query, or with the status
\* 'failed' the network reported.
TransferFails(i) ==
    /\ call'[i] # call[i]
    /\ call'[i].op = "transfer_sol" /\ call'[i].pc \in {"returned", "raised"}
    /\ (call'[i].error \in {"Network", "Construction"} \/ call'[i].status = "failed")

\* C10: when a transfer_sol call that passed the pre-flight checks ends as
\* a failure, a record of that attempt with status 'failed' and an error
\* description is in the payments directory.
C10_FailedAttemptRecorded ==
    [][\A i \in Inst :
          TransferFails(i) =>
              \E k \in DOMAIN payments' :
                  /\ payments'[k].call = call'[i].id
                  /\ payments'[k].status = "failed"
                  /\ payments'[k].error # "none"]_vars

\* C11: a mint_product_nft call whose transaction was submitted and then
\* rejected by the network, or not confirmed within the polling ceiling,
\* raises and leaves in the nfts directory a record of that attempt (the
\* record carrying its transaction signature) with a status other than
\* 'confirmed'.
C11_MintAttemptRecorded ==
    \A i \in Inst :
        ( /\ call[i].op = "mint_product_nft" /\ call[i].pc = "raised"
          /\ call[i].signature # 0 /\ call[i].error = "NotConfirmed" )
        => \E p \in DOMAIN nfts :
               /\ nfts[p].transaction_signature = call[i].signature
               /\ nfts[p].status # "confirmed"

\* C12: from the step in which send_transaction accepted a transfer on, a
\* record with the signature of that transaction is in the payments
\* directory.
C12_RecordFromSubmission ==
    \A i \in Inst :
        (call[i].op = "transfer_sol" /\ call[i].signature # 0)
        => \E k \in DOMAIN payments : payments[k].signature = call[i].signature

\* Instance i has just returned from a get_transaction_history call.
HistoryReturned(i) ==
    call[i].op = "get_transaction_history" /\ call[i].pc = "returned"

\* The readable files of the directory that pass the filters of call c,
\* newest first.
MatchingNewestFirst(files, c) ==
    SelectSeq(Reverse(files),
              LAMBDA f : /\ f # Corrupt
                         /\ (c.wallet # NoFilter) =>
                                (f.from_wallet = c.wallet \/ f.to_wallet = c.wallet)
                         /\ (c.transaction_type # NoFilter) =>
                                (f.type = c.transaction_type))

\* C13: on a directory of readable records, get_transaction_history with
\* filters W, T and limit N returns the min(N, m) newest of the m records
\* that match the filters.
C13_NewestMatching ==
    \A i \in Inst :
        (HistoryReturned(i) /\ \A k \in DOMAIN payments : payments[k] # Corrupt)
        => LET m == MatchingNewestFirst(payments, call[i]) IN
           call[i].result =
               SubSeq(m, 1, IF call[i].limit < Len(m) THEN call[i].limit ELSE Len(m))

\* C14: get_transaction_history(wallet_name=W) returns no record whose
\* from_wallet and to_wallet both differ from W, and with transaction_type=T
\* no record whose type differs from T, whatever the directory and the limit.
C14_FiltersExclude ==
    \A i \in Inst :
        HistoryReturned(i) =>
            \A k \in DOMAIN call[i].result :
                LET r == call[i].result[k] IN
                /\ (call[i].wallet # NoFilter) =>
                       (r.from_wallet = call[i].wallet \/ r.to_wallet = call[i].wallet)
                /\ (call[i].transaction_type # NoFilter) =>
                       (r.type = call[i].transaction_type)

\* C14 witness: a query for wallet "w3" and type sol_transfer with limit 3
\* returned one record, from a directory whose three files are readable and
\* hold a transfer of "w1" and a plain payment of "w3" as well.
C14_Witness ==
    \E i \in Inst :
        /\ HistoryReturned(i)
        /\ call[i].wallet = "w3" /\ call[i].transaction_type = "sol_transfer"
        /\ call[i].limit = 3 /\ Len(call[i].result) = 1
        /\ Len(payments) = 3
        /\ \E k \in DOMAIN payments :
              payments[k].from_wallet = "w1" /\ payments[k].type = "sol_transfer"
        /\ \E k \in DOMAIN payments :
              payments[k].from_wallet = "w3" /\ payments[k].type = "none"

\* C15: get_transaction_history on a directory with unreadable files
\* returns what it would return were those files not in the directory.
C15_CorruptAsAbsent ==
    \A i \in Inst :
        HistoryReturned(i) =>
            call[i].result =
                get_transaction_history(SelectSeq(payments, LAMBDA f : f # Corrupt),
                                        call[i].wallet, call[i].limit,
                                        call[i].transaction_type)

\* C16: every asset record with on_chain = true has a mint_address and a
\* token_account, and they are the two accounts of the mint transaction the
\* record names, whose confirmation ended with the status 'confirmed'.
C16_OnChainHasMint ==
    \A p \in DOMAIN nfts :
        nfts[p].on_chain =>
            /\ nfts[p].mint_address # 0 /\ nfts[p].token_account # 0
            /\ nfts[p].transaction_signature # 0 /\ nfts[p].status = "confirmed"
            /\ nfts[p].mint_address = Keypair(nfts[p].transaction_signature, 2)
            /\ nfts[p].token_account = Keypair(nfts[p].transaction_signature, 3)

\* C16 witness: the record of a mint of this run, on_chain, after a
\* transfer_nft_on_chain to "w2" has returned.
C16_Witness ==
    /\ "p1" \in DOMAIN nfts
    /\ nfts["p1"].on_chain /\ nfts["p1"].transaction_signature = 1
    /\ nfts["p1"].owner_wallet = "w2" /\ nfts["p1"].previous_owner = "w1"
    /\ \E i \in Inst : call[i].op = "transfer_nft_on_chain" /\ call[i].pc = "returned"

\* C17: no step changes or removes the mint_address or the token_account of
\* an asset record that has them.
C17_MintAddressImmutable ==
    [][\A p \in DOMAIN nfts :
          (nfts[p].mint_address # 0 /\ nfts[p].token_account # 0)
          => /\ p \in DOMAIN nfts'
             /\ nfts'[p].mint_address = nfts[p].mint_address
             /\ nfts'[p].token_account = nfts[p].token_account]_vars

C19_NotFoundBeforeLedger ==
    [][\A i \in Inst :
          ( \/ /\ Starts(i, "transfer_sol")
               /\ \/ call'[i].from_wallet \notin DOMAIN wallets[i]
                  \/ call'[i].to_wallet \notin DOMAIN wallets[i]
            \/ /\ Starts(i, "mint_product_nft")
               /\ call'[i].wallet \notin DOMAIN wallets[i] )
          => /\ call'[i].pc = "raised" /\ call'[i].error = "NotFound"
             /\ call'[i].n_get_balance = 0 /\ call'[i].n_blockhash = 0
             /\ call'[i].n_send = 0 /\ call'[i].n_status = 0
             /\ ~ call'[i].wrote
             /\ payments' = payments /\ nfts' = nfts]_vars

\* C19 witness: transfer_sol("w1", "w4", 0.0157) with "w4" unknown was rejected.
C19_Witness ==
    \E i \in Inst :
        /\ call[i].op = "transfer_sol" /\ call[i].to_wallet = "w4"
        /\ call[i].amount = 157 /\ "w4" \notin DOMAIN wallets[i]
        /\ call[i].pc = "raised" /\ call[i].error = "NotFound"
        /\ payments = << >>

\* A status reply that is not definitive: no entry for the signature, or an
\* entry without error and without confirmation status.
Indefinite(reply) ==
    ~reply.entry \/ (~reply.err /\ reply.confirmation_status = "none")

\* C20: a transfer is at its final check only after max_wait polls none of
\* which was definitive; and when the final check is not definitive either,
\* the call returns a record with the status 'pending', neither 'confirmed'
\* nor 'failed', and that record is in the payments directory.
C20_TimedOutIsPending ==
    /\ [](\A i \in Inst :
            (call[i].op = "transfer_sol" /\ call[i].pc = "final")
            => /\ call[i].wait_time = max_wait /\ call[i].n_status = max_wait
               /\ call[i].status = "pending")
    /\ [][\A i \in Inst : \A r \in StatusReplies :
            (Indefinite(r) /\ TransferFinal(i, TRUE, r))
            => /\ call'[i].pc = "returned" /\ call'[i].error = "none"
               /\ call'[i].status = "pending"
               /\ \E k \in DOMAIN payments' :
                     /\ payments'[k].call = call'[i].id
                     /\ payments'[k].signature = call'[i].signature
                     /\ payments'[k].status = "pending"]_vars

\* C20 witness: a transfer has returned after the loop ran out and the final
\* check was not definitive; its record, status 'pending', is the newest file.
C20_Witness ==
    \E i \in Inst :
        /\ call[i].op = "transfer_sol" /\ call[i].pc = "returned"
        /\ call[i].status = "pending" /\ call[i].wrote
        /\ Len(payments) > 0
        /\ payments[Len(payments)].call = call[i].id
        /\ payments[Len(payments)].status = "pending"

\* C21: saving a wallet collection and loading it again gives the same
\* collection: the same names, and for each name an entry with the same name,
\* public_key, private_key and secret_key.  This holds for the collection of
\* every instance in every reachable state, and the wallet file is at all
\* times a document that loads and saves back to itself.
C21_SaveLoadRoundTrip ==
    /\ \A i \in Inst :
          /\ load_wallets(json_dump(wallets[i])) = wallets[i]
          /\ \A n \in DOMAIN wallets[i] :
                /\ DOMAIN wallets[i][n] = {"name", "public_key", "private_key", "secret_key"}
                /\ wallets[i][n].name = PyStr("text", 0, n)
    /\ json_dump(load_wallets(walletFile)) = walletFile

\* C21 witness: instance "A" has loaded the wallet file again, at the end of
\* a transfer, after "B" had created and saved "w3": "A" holds for "w3" the
\* entry "B" made.
C21_Witness ==
    /\ call["A"].op = "transfer_sol" /\ call["A"].pc = "returned"
    /\ created["A"] = {} /\ created["B"] = {<<"w3", Keypair(1, 1)>>}
    /\ "w3" \in DOMAIN wallets["A"]
    /\ wallets["A"]["w3"] = wallet_info("w3", Keypair(1, 1))
    /\ wallets["A"] = wallets["B"]

\* C22: every call of a state-changing operation (transfer_sol,
\* mint_product_nft, transfer_nft_on_chain, update_nft_metadata,
\* create_wallet, fund_wallet, process_supply_chain_payment) that returns
\* normally returns a record (a dict), not a string, a boolean or None.
C22_ReturnsRecord ==
    \A i \in Inst :
        ( /\ call[i].pc = "returned"
          /\ call[i].op \in {"transfer_sol", "mint_product_nft", "transfer_nft_on_chain",
                             "update_nft_metadata", "create_wallet", "fund_wallet",
                             "process_supply_chain_payment"} )
        => call[i].returned = "dict"

\* C23: while a transfer_sol or mint_product_nft call of an instance waits
\* between two confirmation polls, a get_wallet_balance call can start on
\* that instance (and then complete, being one step) before the polling call
\* has finished.
C23_OtherOperationsProceed ==
    \A i \in Inst :
        ( /\ call[i].op \in {"transfer_sol", "mint_product_nft"}
          /\ call[i].pc = "poll" /\ call[i].wait_time > 0
          /\ ncalls < MaxCalls )
        => ENABLED (\E b \in BalanceReplies : GetBalance(i, "w1", b))

\* Instance i has a transfer in flight: it passed the balance check with a
\* balance B and an amount A, A <= B < 2A, and is at send_transaction or in
\* the confirmation loop.
InFlight(i) ==
    /\ call[i].op = "transfer_sol"
    /\ call[i].pc \in {"send", "poll", "final"}
    /\ call[i].amount * LamportsPerUnit <= call[i].balance
    /\ call[i].balance - call[i].amount * LamportsPerUnit
           < call[i].amount * LamportsPerUnit

\* C24: two transfer_sol calls from the same wallet are not serialized.  While
\* one instance has a transfer of A from W in flight, made with a balance B,
\* A <= B < 2A, a second transfer of A from W can start on another instance,
\* be told the same balance B, pass the balance check and go on to
\* send_transaction; and a transfer that has passed the check sends without
\* looking at the other instance.
C24_NotSerialized ==
    \A i \in Inst : \A j \in Inst \ {i} :
        /\ (InFlight(i) /\ Idle(j) /\ ncalls < MaxCalls) =>
               ENABLED ( /\ TransferStart(j, call[i].from_wallet, call[i].to_wallet,
                                          call[i].amount,
                                          [ok |-> TRUE, value |-> call[i].balance], TRUE)
                         /\ call'[j].pc = "send" )
        /\ (InFlight(i) /\ InFlight(j) /\ call[j].pc = "send") =>
               ENABLED ( TransferSend(j, TRUE) /\ call'[j].n_send = 1 )

\* Both transfers of 1 SOL from "w1" passed the check with the balance of
\* 1 SOL and both were sent.
C24_Witness ==
    \A i \in Inst :
        /\ InFlight(i) /\ call[i].from_wallet = "w1"
        /\ call[i].balance = LamportsPerSol /\ call[i].amount = SOL
        /\ call[i].n_send = 1 /\ call[i].pc = "poll"

\* C25: a transfer_sol(W1, W2, A) that ends confirmed has submitted a
\* transfer instruction of A times 10^9 lamports to W2 (what a ledger that
\* applies the instruction adds to the balance of W2), with W1 as the payer
\* of the fee.
C25_CreditsAmount ==
    \A i \in Inst :
        (call[i].op = "transfer_sol" /\ call[i].pc = "returned"
         /\ call[i].status = "confirmed") =>
            /\ call[i].lamports = call[i].amount * LamportsPerUnit
            /\ call[i].fee_payer = call[i].from_wallet

\* C26: in the confirmation loop of transfer_sol the first poll reply that
\* carries an error ends the polling: the step that receives it sets the
\* status 'failed', writes the record with that status and returns, so that
\* neither a regular poll nor the final check follows for that transaction;
\* until then the status is 'pending', and a call whose status is 'failed'
\* is never in the loop or at the final check.
C26_ErrorStopsPolling ==
    /\ [](\A i \in Inst :
            (call[i].op = "transfer_sol" /\ call[i].pc \in {"poll", "final"})
            => call[i].status = "pending")
    /\ [](\A i \in Inst :
            (call[i].op = "transfer_sol" /\ call[i].status = "failed")
            => /\ call[i].pc \in {"returned", "raised"}
               /\ ~ ENABLED (\E ok \in BOOLEAN, r \in StatusReplies :
                                TransferPoll(i, ok, r) \/ TransferFinal(i, ok, r)))
    /\ [][\A i \in Inst : \A r \in StatusReplies :
            (r.entry /\ r.err /\ TransferPoll(i, TRUE, r))
            => /\ call'[i].pc = "returned" /\ call'[i].status = "failed"
               /\ call'[i].n_send = 1
               /\ payments'[Len(payments')].call = call'[i].id
               /\ payments'[Len(payments')].status = "failed"
               /\ payments'[Len(payments')].signature = call'[i].signature]_vars

\* C26 witness: a transfer returned with the status 'failed' that a poll
\* reply with an error gave it; the record of the sent transaction, status
\* 'failed', is the newest file.
C26_Witness ==
    \E i \in Inst :
        /\ call[i].op = "transfer_sol" /\ call[i].pc = "returned"
        /\ call[i].status = "failed" /\ call[i].error = "none"
        /\ call[i].n_send = 1 /\ call[i].wrote
        /\ Len(payments) > 0
        /\ payments[Len(payments)].call = call[i].id
        /\ payments[Len(payments)].status = "failed"
        /\ payments[Len(payments)].signature = call[i].signature

\* C27: the final check of transfer_sol, the get_signature_statuses call
\* with search_transaction_history, is made when the loop has made max_wait
\* polls and the status is still 'pending', and in no other case: a poll
\* that gives 'confirmed' or 'failed' ends the call without it.  It is made
\* once: the step that makes it ends the call.
C27_OneFinalCheck ==
    /\ [](\A i \in Inst :
            /\ call[i].n_history \in {0, 1}
            /\ (call[i].op = "transfer_sol" /\ call[i].pc = "final")
               => /\ call[i].status = "pending" /\ call[i].n_history = 0
                  /\ call[i].wait_time = max_wait /\ call[i].n_status = max_wait
            /\ (call[i].op = "transfer_sol" /\ call[i].pc \in {"send", "poll"})
               => call[i].n_history = 0)
    /\ [][\A i \in Inst : \A ok \in BOOLEAN, r \in StatusReplies :
            /\ TransferPoll(i, ok, r) =>
                  /\ call'[i].n_history = 0
                  /\ (call'[i].pc = "final") <=>
                        (ok /\ Indefinite(r) /\ call[i].wait_time = max_wait - 1)
                  /\ (ok /\ ~Indefinite(r)) =>
                        /\ call'[i].pc = "returned"
                        /\ call'[i].status \in {"confirmed", "failed"}
            /\ TransferFinal(i, ok, r) =>
                  /\ call'[i].n_history = 1
                  /\ call'[i].pc \in {"returned", "raised"}]_vars

\* C27 witness: a transfer returned 'confirmed' by its final check, made
\* after the polls of the loop had given nothing.
C27_Witness ==
    \E i \in Inst :
        /\ call[i].op = "transfer_sol" /\ call[i].pc = "returned"
        /\ call[i].n_history = 1 /\ call[i].status = "confirmed"
        /\ call[i].wrote

\* C28: a mint_product_nft call whose loop made max_wait polls without a
\* definitive status makes one final status check with
\* search_transaction_history before it gives up: a mint that gave up with
\* its status still 'pending' has made that check.
C28_MintFinalCheck ==
    \A i \in Inst :
        (call[i].op = "mint_product_nft" /\ call[i].pc = "raised"
         /\ call[i].error = "NotConfirmed" /\ call[i].status = "pending")
        => call[i].n_history = 1

\* C29: the confirmation loop is bounded and the call ends.  A call has made
\* at most max_wait regular polls, and a transfer at most one final check
\* on top (31 get_signature_statuses calls), a mint none; at the head of the
\* loop as many waits have passed as polls were made; a step of the loop or
\* of the final check ends the call or adds one poll and one wait; and a
\* call that was sent returns or raises.
C29_LoopBounded ==
    /\ [](\A i \in Inst :
            /\ call[i].n_history \in {0, 1}
            /\ call[i].n_status + call[i].n_history <= max_wait + 1
            /\ (call[i].op = "mint_product_nft")
               => (call[i].n_status <= max_wait /\ call[i].n_history = 0)
            /\ (call[i].pc = "poll")
               => (call[i].n_status = call[i].wait_time /\ call[i].wait_time < max_wait)
            /\ (call[i].pc = "final")
               => (call[i].n_status = max_wait /\ call[i].wait_time = max_wait))
    /\ [][\A i \in Inst :
            (call[i].pc \in {"poll", "final"} /\ call'[i] # call[i])
            => \/ call'[i].pc \in {"returned", "raised"}
               \/ /\ call[i].pc = "poll" /\ call'[i].pc \in {"poll", "final"}
                  /\ call'[i].n_status = call[i].n_status + 1
                  /\ call'[i].wait_time = call[i].wait_time + 1]_vars
    /\ \A i \in Inst : (call[i].pc \in {"send", "poll", "final"}) ~> Idle(i)

\* C29 witness: a mint gave up after the polls of its loop had given nothing.
C29_Witness ==
    \E i \in Inst :
        /\ call[i].op = "mint_product_nft" /\ call[i].pc = "raised"
        /\ call[i].error = "NotConfirmed" /\ call[i].status = "pending"
        /\ call[i].n_send = 1 /\ call[i].n_history = 0

\* The place of record rec in the payments directory: the files are named
\* by the second they were written in, so a later place is a later write.
WrittenAt(rec) == CHOOSE k \in DOMAIN payments : payments[k] = rec

\* C30: get_transaction_history returns at most `limit` records, every one
\* of them a file of the directory, ordered most recent first: of two
\* returned records the one written later comes earlier in the result.
C30_AtMostLimitNewestFirst ==
    \A i \in Inst :
        HistoryReturned(i) =>
            LET res == call[i].result IN
            /\ Len(res) <= call[i].limit
            /\ \A k \in DOMAIN res : \E f \in DOMAIN payments : payments[f] = res[k]
            /\ \A a \in DOMAIN res : \A b \in DOMAIN res :
                   (WrittenAt(res[a]) > WrittenAt(res[b])) => (a < b)

\* C30 witness: a query with limit 2 and no filter on a directory of three
\* readable files returned two records, the newest before the one written
\* before it.
C30_Witness ==
    \E i \in Inst :
        /\ HistoryReturned(i)
        /\ call[i].limit = 2 /\ call[i].wallet = NoFilter
        /\ call[i].transaction_type = NoFilter
        /\ Len(payments) = 3 /\ \A k \in DOMAIN payments : Readable(payments[k])
        /\ call[i].result = <<payments[3], payments[2]>>

\* The fields of an asset record that a change of owner leaves alone.
Issued(rec) ==
    <<rec.product_id, rec.mint_address, rec.token_account, rec.metadata,
      rec.on_chain, rec.transaction_signature>>

Held(rec) ==
    <<rec.owner_wallet, rec.owner_address, rec.mint_address, rec.token_account,
      rec.on_chain>>

\* C32: update_nft_metadata(product_id, patch) on an existing record writes
\* a record whose metadata has every key of patch with the value of patch
\* and every other key it had with the value it had, and whose owner_wallet,
\* owner_address, mint_address, token_account and on_chain are as the call
\* read them; when no record exists the call raises not-found and the
\* directory stays as it was.
C32_MetadataPatched ==
    /\ [][\A i \in Inst :
            UpdateNftMetadataSave(i) =>
               LET p == call[i].product_id
                   patch == call[i].metadata
                   old == call[i].nft_info
               IN
               /\ call'[i].pc = "returned" /\ call'[i].nft_info = nfts'[p]
               /\ DOMAIN nfts'[p].metadata = (DOMAIN old.metadata) \cup (DOMAIN patch)
               /\ \A k \in DOMAIN patch : nfts'[p].metadata[k] = patch[k]
               /\ \A k \in (DOMAIN old.metadata) \ (DOMAIN patch) :
                     nfts'[p].metadata[k] = old.metadata[k]
               /\ Held(nfts'[p]) = Held(old)
               /\ (nfts[p] = old) => (Held(nfts'[p]) = Held(nfts[p]))
               /\ DOMAIN nfts' = DOMAIN nfts]_vars
    /\ [][\A i \in Inst :
            (Starts(i, "update_nft_metadata") /\ call'[i].product_id \notin DOMAIN nfts)
            => /\ call'[i].pc = "raised" /\ call'[i].error = "NotFound"
               /\ nfts' = nfts]_vars

\* C32 witness: update_nft_metadata("p1", {batch: b1}) returned; the record
\* keeps its name and has the batch.
C32_Witness ==
    \E i \in Inst :
        /\ call[i].op = "update_nft_metadata" /\ call[i].pc = "returned"
        /\ call[i].metadata = [batch |-> "b1"]
        /\ nfts["p1"] = call[i].nft_info
        /\ DOMAIN nfts["p1"].metadata = {"name", "batch"}
        /\ nfts["p1"].metadata["batch"] = "b1"
        /\ nfts["p1"].metadata["name"] \in {"m1", "m2"}

\* The mint call of instance i has built and signed its transaction and is
\* about to send it.
MintBuilt(i) == call[i].op = "mint_product_nft" /\ call[i].pc = "send"

\* The account keys of instruction ix that are marked as signers.
SignerKeys(ix) ==
    { ix.accounts[a].pubkey : a \in {b \in DOMAIN ix.accounts : ix.accounts[b].is_signer} }

\* Instruction ix is the system program's create-account of `space` bytes
\* for the key `to`, paid by `from` and owned by the token program.
CreatesAccount(ix, from, to, space) ==
    /\ ix.program_id = SYSTEM_PROGRAM_ID
    /\ Len(ix.data) = 52
    /\ SubSeq(ix.data, 1, 4) = <<0, 0, 0, 0>>
    /\ SubSeq(ix.data, 13, 20) = <<space, 0, 0, 0, 0, 0, 0, 0>>
    /\ SubSeq(ix.data, 21, 52) = PubkeyBytes(TOKEN_PROGRAM_ID)
    /\ ix.accounts[1].pubkey = from /\ ix.accounts[2].pubkey = to

\* C33: the transaction mint_product_nft sends has five instructions in
\* this order: create the 82-byte mint account owned by the token program,
\* initialize the mint (opcode 0), create the 165-byte holding account owned
\* by the token program, initialize it (opcode 1) for the mint and the
\* issuing wallet, mint to it (opcode 7); the message has one blockhash, the
\* one it is signed with; the payer is the issuing wallet; the signers are
\* the issuing wallet, the mint keypair and the token-account keypair, and
\* these are the keys the message requires.
C33_FiveInstructions ==
    \A i \in Inst :
        MintBuilt(i) =>
            LET t == call[i].transaction
                ix == t.instructions
                owner == get_wallet_keypair(wallets[i], call[i].wallet)
                mint == Keypair(call[i].id, 2)
                token == Keypair(call[i].id, 3)
            IN
            /\ Len(ix) = 5
            /\ CreatesAccount(ix[1], owner, mint, 82)
            /\ ix[2].program_id = TOKEN_PROGRAM_ID /\ ix[2].data[1] = 0
            /\ ix[2].accounts[1].pubkey = mint
            /\ CreatesAccount(ix[3], owner, token, 165)
            /\ ix[4].program_id = TOKEN_PROGRAM_ID /\ ix[4].data[1] = 1
            /\ ix[4].accounts[1].pubkey = token /\ ix[4].accounts[2].pubkey = mint
            /\ ix[4].accounts[3].pubkey = owner
            /\ ix[5].program_id = TOKEN_PROGRAM_ID /\ ix[5].data[1] = 7
            /\ ix[5].accounts[1].pubkey = mint /\ ix[5].accounts[2].pubkey = token
            /\ ix[5].accounts[3].pubkey = owner
            /\ t.recent_blockhash = t.signed_with /\ t.recent_blockhash # 0
            /\ t.payer = owner /\ call[i].fee_payer = call[i].wallet
            /\ t.signers = {owner, mint, token} /\ Cardinality(t.signers) = 3
            /\ UNION {SignerKeys(ix[n]) : n \in 1 .. 5} \cup {t.payer} = t.signers

\* C33 witness: the mint of "p1" for "w1" has built its transaction of five
\* instructions, signed by three keys.
C33_Witness ==
    \E i \in Inst :
        /\ MintBuilt(i) /\ call[i].wallet = "w1" /\ call[i].product_id = "p1"
        /\ Len(call[i].transaction.instructions) = 5
        /\ Cardinality(call[i].transaction.signers) = 3
        /\ call[i].n_send = 0 /\ call[i].n_blockhash = 1

\* The opcodes of the token program for the three instruction kinds the
\* mint encodes by hand.
TokenOpcode == [InitializeMint |-> 0, InitializeAccount |-> 1, MintTo |-> 7]

\* C34: the payloads the mint encodes by hand are exact.  The initialize-mint
\* payload is the opcode 0, the decimals 0, the 32 bytes of the issuing
\* wallet's public key and the option byte 0, 35 bytes; the mint-to payload
\* is the opcode 7 and the amount 1 in 8 bytes, lowest byte first, 9 bytes;
\* and each of the three payloads starts with the opcode of its kind.
C34_PayloadBytes ==
    \A i \in Inst :
        MintBuilt(i) =>
            LET ix == call[i].transaction.instructions
                owner == get_wallet_keypair(wallets[i], call[i].wallet)
            IN
            /\ ix[2].data = <<0, 0>> \o PubkeyBytes(owner) \o <<0>>
            /\ Len(ix[2].data) = 35
            /\ ix[5].data = <<7, 1, 0, 0, 0, 0, 0, 0, 0>>
            /\ Len(ix[5].data) = 9
            /\ ix[2].data[1] = TokenOpcode.InitializeMint
            /\ ix[4].data[1] = TokenOpcode.InitializeAccount
            /\ ix[5].data[1] = TokenOpcode.MintTo
            /\ \A n \in {2, 4, 5} : \A k \in DOMAIN ix[n].data : ix[n].data[k] \in 0 .. 255

\* C34 witness: a mint for "w1" has encoded its payloads; the mint-to
\* payload ends the transaction.
C34_Witness ==
    \E i \in Inst :
        /\ MintBuilt(i) /\ call[i].wallet = "w1"
        /\ call[i].transaction.instructions[5].data = <<7, 1, 0, 0, 0, 0, 0, 0, 0>>
        /\ Len(call[i].transaction.instructions[2].data) = 35

\* C35: after create_wallet has returned or raised, the wallet collection
\* of the instance equals what the wallet file holds.
C35_MemoryEqualsFile ==
    \A i \in Inst :
        (call[i].op = "create_wallet" /\ call[i].pc \in {"returned", "raised"})
        => load_wallets(walletFile) = wallets[i]

\* The reply of a get_balance query that raised.
QueryFailed == [ok |-> FALSE, value |-> 0]

\* C36: when the get_balance query raises, get_wallet_balance returns 0.0
\* and does not raise; transfer_sol between known wallets for a positive
\* amount then raises the insufficient-balance error without a call of
\* get_latest_blockhash or send_transaction and writes no record.
C36_FailedQueryIsZeroBalance ==
    /\ [][\A i \in Inst : \A n \in Names :
            (WalletExists(wallets[i], n) /\ GetBalance(i, n, QueryFailed))
            => /\ call'[i].pc = "returned" /\ call'[i].returned = "float"
               /\ call'[i].balance = 0]_vars
    /\ [][\A i \in Inst : \A p \in TransferPairs : \A a \in Amounts :
          \A h \in BOOLEAN :
            (/\ a > 0
             /\ WalletExists(wallets[i], p[1]) /\ WalletExists(wallets[i], p[2])
             /\ TransferStart(i, p[1], p[2], a, QueryFailed, h))
            => /\ call'[i].pc = "raised" /\ call'[i].error = "Insufficient"
               /\ call'[i].balance = 0
               /\ call'[i].n_blockhash = 0 /\ call'[i].n_send = 0
               /\ ~ call'[i].wrote
               /\ payments' = payments /\ writes' = writes]_vars

\* C36 witness: transfer_sol of 0.0157 SOL between known wallets was
\* rejected for a balance of 0.0, the value a failed query gives.
C36_Witness ==
    \E i \in Inst :
        /\ call[i].op = "transfer_sol" /\ call[i].error = "Insufficient"
        /\ call[i].amount = 157 /\ call[i].balance = 0
        /\ call[i].n_get_balance = 1 /\ call[i].n_blockhash = 0
        /\ get_wallet_balance(QueryFailed) = call[i].balance

\* C37: every asset record on disk that has an owner_address has the public
\* key of the wallet its owner_wallet names, whatever mints and transfers
\* (on-chain or legacy) were run.
C37_AddressOfOwner ==
    \A p \in DOMAIN nfts :
        nfts[p].owner_address # NoAddress
        => \E i \in Inst :
              /\ WalletExists(wallets[i], nfts[p].owner_wallet)
              /\ nfts[p].owner_address = wallets[i][nfts[p].owner_wallet].public_key

\* C38: an update_nft_metadata call and a transfer_nft_on_chain call on the
\* same product that overlap and both return leave a record with the new
\* owner and the patched metadata.
C38_BothTakeEffect ==
    \A i \in Inst : \A j \in Inst \ {i} :
        (/\ call[i].op = "update_nft_metadata" /\ call[i].pc = "returned"
         /\ call[j].op = "transfer_nft_on_chain" /\ call[j].pc = "returned"
         /\ call[i].product_id = call[j].product_id)
        => LET rec == nfts[call[i].product_id] IN
           /\ rec.owner_wallet = call[j].wallet
           /\ \A k \in DOMAIN call[i].metadata :
                 k \in DOMAIN rec.metadata /\ rec.metadata[k] = call[i].metadata[k]

\* C39: every send_transaction call of transfer_sol carries a transfer of at
\* least one lamport; a request for amount 0 is rejected before submission.
C39_SendsMoveValue ==
    \A i \in Inst :
        (call[i].op = "transfer_sol" /\ call[i].n_send >= 1)
        => call[i].lamports >= 1

====
